---- MODULE Spec2Model ----
(***************************************************************************)
(* State-machine model of micro_agent_push.py: the startup sequence of     *)
(* main(), the run loop (delay computation, entry generation, append,      *)
(* stage/commit, push, report, chunked wait, error backoff) and the        *)
(* SIGINT handler.                                                         *)
(*                                                                         *)
(* Text is modelled as a sequence of tokens (a token is a short string     *)
(* standing for a run of characters; " " and "\n" are single characters,   *)
(* "{ts}" and "{timestamp}" are replacement fields of str.format).         *)
(* Time is measured in ticks, TicksPerSecond ticks to the second.          *)
(***************************************************************************)
EXTENDS Integers, Sequences, FiniteSets, TLC

VARIABLES
    pc,                    \* position of the main thread in main()
    status,                \* "running", or how the process ended
    args,                  \* the parsed command line (argparse Namespace)
    env,                   \* what startup found: repository, branch, templates file
    totals,                \* appends, commit and push attempts of the whole run
    handler,               \* TRUE once signal.signal(SIGINT, _handle_sigint) ran
    stop_signal_received,  \* the nonlocal stop flag
    templates,             \* the template pool
    exists,                \* os.path.exists(target_file)
    created,               \* TRUE once main() wrote the header to a new target file
    file,                  \* content of the target file
    index,                 \* staged content of the target file (git index)
    history,               \* commits of the repository made by this process
    remote,                \* number of those commits the remote has
    cycle,                 \* number of loop iterations started (the clock reading)
    delay,                 \* effective delay of the current cycle, in ticks
    entry,                 \* the entry generated in the current cycle
    committed,             \* result of git_stage_and_commit in the current cycle
    slept,                 \* the wait loop's counter, in ticks
    chunk,                 \* argument of the time.sleep call in progress, in ticks
    waited,                \* ticks really slept in the current wait phase
    rounds,                \* iterations of the backoff loop done
    out,                   \* the lines printed so far
    generated,             \* the entries generate_entry returned, in order
    sig,                   \* SIGINTs handled, and where the first one arrived
    trace                  \* what the current cycle has done so far

vars == <<pc, status, args, env, totals, handler, stop_signal_received, templates, exists,
          created, file, index, history, remote, cycle, delay, entry, committed,
          slept, chunk, waited, rounds, out, generated, sig, trace>>

----------------------------------------------------------------------------
(* Bounds of the model *)

MaxCycles == 2
TicksPerSecond == 2
MaxSigints == 1
MaxInterval == 2
LongInterval == 9
MaxBase == 40

(* Constants of the program *)

MinDelay == 10
JitterPercent == 20
BackoffRounds == 5
SleepChunk == 1

\* time.sleep(1) of the backoff, in seconds.
BackoffSleep == 1

Min(a, b) == IF a < b THEN a ELSE b
Max(a, b) == IF a > b THEN a ELSE b
Abs(a) == IF a < 0 THEN -a ELSE a

----------------------------------------------------------------------------
(* Text helpers *)

NL == "\n"
SP == " "

IsSpace(c) == c \in {SP, NL}

RECURSIVE LStrip(_)
LStrip(s) == IF s # <<>> /\ IsSpace(Head(s)) THEN LStrip(Tail(s)) ELSE s

RECURSIVE RStrip(_)
RStrip(s) ==
    IF s # <<>> /\ IsSpace(s[Len(s)]) THEN RStrip(SubSeq(s, 1, Len(s) - 1)) ELSE s

\* str.strip()
Strip(s) == RStrip(LStrip(s))

\* str.endswith("\n")
EndsWithNL(s) == s # <<>> /\ s[Len(s)] = NL

\* datetime.utcnow().strftime(...): the clock reading n as text
Timestamp(n) == "T" \o ToString(n)

----------------------------------------------------------------------------
(* Pure functions of the program *)

\* The built-in pool: each of the seven templates is a run of text, the {ts}
\* field and a closing run of text, with no newline and no other field.
DEFAULT_TEMPLATES == [i \in 1..7 |-> <<"text (", "{ts}", ").">>]

\* The header main() writes to a new target file.
Header ==
    <<"# Micro updates", NL, NL,
      "This file collects tiny, useful notes and TODOs created automatically.",
      NL, NL>>

\* templ.format(ts=ts) raises KeyError for a field other than ts.
FormatRaises(templ) == \E i \in 1..Len(templ) : templ[i] = "{timestamp}"

\* Mutant: the template is used as it is written.
Format_Identity(templ, ts) == templ

\* templ.format(ts=ts), when it does not raise.
Format(templ, ts) ==
    [i \in 1..Len(templ) |-> IF templ[i] = "{ts}" THEN ts ELSE templ[i]]

\* generate_entry, for the template random.choice picked and the clock reading.
generate_entry(templ, prefix, ts) ==
    IF prefix # <<>>
    THEN prefix \o <<SP>> \o Format(templ, ts) \o <<NL>>
    ELSE <<"-", SP>> \o Format(templ, ts) \o <<NL>>

\* Mutant: the file is opened for writing, not for appending.
append_entry_Truncate(content, e) ==
    e \o (IF EndsWithNL(e) THEN <<>> ELSE <<NL>>)

\* append_entry: the file content after the append.
append_entry(content, e) ==
    content \o e \o (IF EndsWithNL(e) THEN <<>> ELSE <<NL>>)

\* The lines of a templates file that survive l.strip(), stripped.
RECURSIVE StrippedLines(_)
StrippedLines(raw) ==
    IF raw = <<>> THEN <<>>
    ELSE (IF Strip(Head(raw)) # <<>> THEN <<Strip(Head(raw))>> ELSE <<>>)
         \o StrippedLines(Tail(raw))

\* rng.uniform(-jitter, jitter) with jitter = base * 0.2, in whole ticks.
JitterTicks(base) == (Abs(base) * JitterPercent * TicksPerSecond) \div 100
Offsets(base) == (0 - JitterTicks(base))..JitterTicks(base)

\* Mutant: the floor of 10 seconds is not applied.
JitteredDelay_NoFloor(base, offset) == base * TicksPerSecond + offset

\* delay = max(10, base + offset), in ticks.
JitteredDelay(base, offset) ==
    Max(MinDelay * TicksPerSecond, base * TicksPerSecond + offset)

\* The delay of a cycle (lines 165-171), in ticks.
EffectiveDelay(base, randomize, offset) ==
    IF randomize THEN JitteredDelay(base, offset) ELSE base * TicksPerSecond

\* Mutant: one sleep for all that is left of the delay.
NextChunk_Whole(d, s) == d - s

\* min(1.0, delay - slept), in ticks.
NextChunk(d, s) == Min(SleepChunk * TicksPerSecond, d - s)

----------------------------------------------------------------------------
(* Inputs *)

\* What --interval can carry: type=int, no range check.
Intervals == (-1..MaxInterval) \cup {LongInterval}

\* args.push: the default True, or the text given to the option
\* "--push/--no-push" (an abbreviation such as --push selects it).
PushValues == {"True", ""}

Prefixes == {<<>>, <<"AUTO">>}

\* Contents of a templates file, as the lines readlines() returns.
TemplateFiles ==
    { << <<"X", SP, "{ts}">> >>,
      << <<SP, NL>>, <<NL>> >>,
      << <<"X", SP, "{timestamp}", NL>> >>,
      << <<SP, "Y", SP, "{ts}", SP, NL>>, <<NL>>, <<"Z", NL>> >> }

\* The command line with no option but --interval 1.
DefaultArgs ==
    [interval |-> 1, randomize |-> FALSE, push |-> "True", prefix |-> <<>>,
     branch |-> FALSE, templates_file |-> FALSE, unrecognized |-> FALSE]

\* The command lines explored: every interval, --randomize with an interval
\* whose jitter range is below the floor and with one whose range reaches
\* above it, and each other option on its own.
CommandLines ==
    {[DefaultArgs EXCEPT !.interval = i] : i \in Intervals}
    \cup {[DefaultArgs EXCEPT !.interval = i, !.randomize = TRUE] :
             i \in {0, LongInterval}}
    \cup {[DefaultArgs EXCEPT !.push = v] : v \in PushValues}
    \cup {[DefaultArgs EXCEPT !.prefix = p] : p \in Prefixes}
    \cup {[DefaultArgs EXCEPT !.branch = TRUE],
          [DefaultArgs EXCEPT !.templates_file = TRUE],
          [DefaultArgs EXCEPT !.unrecognized = TRUE]}

\* Content of a target file that exists before the run.
OldFiles == { <<"old notes", NL>> }

\* Outcome of a command run by run_cmd: exit status 0, a non-zero exit status
\* (RuntimeError), or subprocess.run itself raising (OSError).
Outcomes == {"ok", "fail", "oserror"}

Line(stream, text, stamped) ==
    [stream |-> stream, text |-> text, stamped |-> stamped]

NoTrace ==
    [appends |-> 0, adds |-> 0, commits |-> 0, pushes |-> 0,
     commit |-> "none", push |-> "none", stopAtCommit |-> FALSE,
     raised |-> FALSE, printed |-> <<>>, backoff |-> 0]

\* Positions of the main thread inside the try block, before the wait.
WorkPcs == {"delay", "generate", "append", "add", "commit", "report", "push"}
WaitPcs == {"wait", "sleep"}
BackoffPcs == {"except", "backoff", "backoff_sleep"}
LoopPcs == {"loop"} \cup WorkPcs \cup WaitPcs \cup BackoffPcs

\* Positions a cycle can be at once its work is done.
AfterWorkPcs == WaitPcs \cup {"loop", "exit", "done"}

NoSig == [count |-> 0, cycle |-> 0, pc |-> "none", waited |-> 0]

\* Nothing of the environment has been looked at yet.
NoEnv == [repo |-> "unchecked", switch |-> "none", create |-> "none",
          templates |-> "none"]

NoTotals == [appends |-> 0, commits |-> 0, commitsOk |-> 0, pushes |-> 0]

----------------------------------------------------------------------------
(* The state after the interpreter started main() *)

Init ==
    /\ pc = "parse"
    /\ status = "running"
    /\ \/ args \in CommandLines /\ exists = FALSE /\ file = <<>>
       \/ args = DefaultArgs /\ exists = TRUE /\ file \in OldFiles
    /\ env = NoEnv
    /\ totals = NoTotals
    /\ handler = FALSE
    /\ stop_signal_received = FALSE
    /\ templates = <<>>
    /\ created = FALSE
    /\ index = file
    /\ history = <<>>
    /\ remote = 0
    /\ cycle = 0
    /\ delay = 0
    /\ entry = <<>>
    /\ committed = FALSE
    /\ slept = 0
    /\ chunk = 0
    /\ waited = 0
    /\ rounds = 0
    /\ out = <<>>
    /\ generated = <<>>
    /\ sig = NoSig
    /\ trace = NoTrace

\* The process ends: sys.exit(code) or an uncaught exception.
Die(how, lines) ==
    /\ pc' = "done"
    /\ status' = how
    /\ out' = out \o lines

Frame == <<args, totals, handler, stop_signal_received, templates, exists, created,
           file, index, history, remote, cycle, delay, entry, committed,
           slept, chunk, waited, rounds, generated, sig, trace>>

----------------------------------------------------------------------------
(* Startup *)

\* parser.parse_args(): "--no-push" is no option of the parser (exit status 2).
ParseArgs ==
    /\ pc = "parse"
    /\ IF args.unrecognized
       THEN Die("exit2", <<Line("stderr", "usage", FALSE)>>)
       ELSE /\ pc' = "validate"
            /\ UNCHANGED <<status, out>>
    /\ UNCHANGED <<env, Frame>>

\* What the repository path can be: a working tree, the inside of a .git
\* directory (or a bare repository), no repository at all, and any of them
\* on a machine where the git executable cannot be started.
RepoKinds == {"tree", "gitdir", "none", "nogit"}

\* git rev-parse --is-inside-work-tree at such a path: how the command ends
\* and what it prints.
RevParse(kind) ==
    CASE kind = "tree"   -> [rc |-> "ok", answer |-> "true"]
      [] kind = "gitdir" -> [rc |-> "ok", answer |-> "false"]
      [] kind = "none"   -> [rc |-> "fail", answer |-> ""]
      [] kind = "nogit"  -> [rc |-> "oserror", answer |-> ""]

\* Mutant: the printed answer is not compared with "true".
is_git_repo_IgnoresAnswer(rc, answer) == rc = "ok"

\* is_git_repo: the command succeeded and printed "true"; any exception of
\* run_cmd gives False.
is_git_repo(rc, answer) == rc = "ok" /\ answer = "true"

\* if not is_git_repo(repo): ... sys.exit(1)
Validate ==
    /\ pc = "validate"
    /\ \E kind \in RepoKinds :
          /\ env' = [env EXCEPT !.repo = kind]
          /\ IF is_git_repo(RevParse(kind).rc, RevParse(kind).answer)
             THEN /\ pc' = "templates"
                  /\ UNCHANGED <<status, out>>
             ELSE Die("exit1", <<Line("stderr", "not a git repository", FALSE)>>)
    /\ UNCHANGED Frame

\* templates = DEFAULT_TEMPLATES[:], replaced by the lines of the templates
\* file when it is readable and has a non-blank line.
LoadTemplates ==
    /\ pc = "templates"
    /\ IF args.templates_file
       THEN \/ \E raw \in TemplateFiles :
                 /\ templates' = IF StrippedLines(raw) # <<>>
                                 THEN StrippedLines(raw)
                                 ELSE DEFAULT_TEMPLATES
                 /\ out' = out
                 /\ env' = [env EXCEPT !.templates =
                               IF StrippedLines(raw) # <<>> THEN "usable"
                                                            ELSE "blank"]
            \/ /\ templates' = DEFAULT_TEMPLATES
               /\ out' = Append(out, Line("stdout", "Warning", FALSE))
               /\ env' = [env EXCEPT !.templates = "unreadable"]
       ELSE /\ templates' = DEFAULT_TEMPLATES
            /\ out' = out
            /\ env' = env
    /\ pc' = "ensure"
    /\ UNCHANGED <<status, args, totals, handler, stop_signal_received, exists, created,
                   file, index, history, remote, cycle, delay, entry, committed,
                   slept, chunk, waited, rounds, generated, sig, trace>>

\* ensure_dir_for_file; a missing target file is created with the header.
EnsureFile ==
    /\ pc = "ensure"
    /\ IF exists
       THEN UNCHANGED <<exists, created, file>>
       ELSE /\ exists' = TRUE
            /\ created' = TRUE
            /\ file' = Header
    /\ pc' = "branch"
    /\ UNCHANGED <<status, args, env, totals, handler, stop_signal_received, templates,
                   index, history, remote, cycle, delay, entry, committed,
                   slept, chunk, waited, rounds, out, generated, sig, trace>>

\* git checkout <branch>, and git checkout -b <branch> when that fails; the
\* second command's RuntimeError, or an OSError of either, is not caught.
Branch ==
    /\ pc = "branch"
    /\ IF args.branch
       THEN \E switch \in Outcomes, create \in Outcomes :
              /\ env' = [env EXCEPT
                            !.switch = switch,
                            !.create = IF switch = "fail" THEN create ELSE @]
              /\ IF switch = "ok" \/ (switch = "fail" /\ create = "ok")
                 THEN /\ pc' = "inform"
                      /\ UNCHANGED <<status, out>>
                 ELSE Die("exit1", <<Line("stderr", "Traceback", FALSE)>>)
       ELSE /\ pc' = "inform"
            /\ UNCHANGED <<status, out, env>>
    /\ UNCHANGED Frame

\* The four lines printed before the loop.
Inform ==
    /\ pc = "inform"
    /\ out' = out \o <<Line("stdout", "Repository", FALSE),
                       Line("stdout", "Target file", FALSE),
                       Line("stdout", "Interval", FALSE),
                       Line("stdout", "Press Ctrl+C to stop.", FALSE)>>
    /\ pc' = "register"
    /\ UNCHANGED <<status, env>>
    /\ UNCHANGED Frame

\* stop_signal_received = False; signal.signal(signal.SIGINT, _handle_sigint)
Register ==
    /\ pc = "register"
    /\ stop_signal_received' = FALSE
    /\ handler' = TRUE
    /\ pc' = "loop"
    /\ UNCHANGED <<status, args, env, totals, templates, exists, created, file, index,
                   history, remote, cycle, delay, entry, committed, slept,
                   chunk, waited, rounds, out, generated, sig, trace>>

----------------------------------------------------------------------------
(* The run loop *)

\* Tree of the target file in HEAD, as far as this process committed it.
HeadTree == IF history = <<>> THEN <<>> ELSE history[Len(history)].tree

\* git commit exits non-zero when nothing is staged relative to HEAD.
CommitOutcomes(staged) ==
    IF staged = HeadTree THEN Outcomes \ {"ok"} ELSE Outcomes

\* Mutant: the loop does not test the flag (while True).
LoopCondition_Always == TRUE

\* while not stop_signal_received:
LoopCondition == ~stop_signal_received

LoopCheck ==
    /\ pc = "loop"
    /\ IF ~LoopCondition
       THEN /\ pc' = "exit"
            /\ UNCHANGED <<cycle, delay, entry, committed, slept, chunk, waited,
                           rounds, trace>>
       ELSE /\ cycle < MaxCycles
            /\ pc' = "delay"
            /\ cycle' = cycle + 1
            /\ delay' = 0
            /\ entry' = <<>>
            /\ committed' = FALSE
            /\ slept' = 0
            /\ chunk' = 0
            /\ waited' = 0
            /\ rounds' = 0
            /\ trace' = NoTrace
    /\ UNCHANGED <<status, args, env, totals, handler, stop_signal_received, templates,
                   exists, created, file, index, history, remote, out,
                   generated, sig>>

\* base = args.interval; delay = base, or max(10, base + uniform(-jitter, jitter))
ComputeDelay ==
    /\ pc = "delay"
    /\ \E offset \in (IF args.randomize THEN Offsets(args.interval) ELSE {0}) :
          delay' = EffectiveDelay(args.interval, args.randomize, offset)
    /\ pc' = "generate"
    /\ UNCHANGED <<status, args, env, totals, handler, stop_signal_received, templates,
                   exists, created, file, index, history, remote, cycle, entry,
                   committed, slept, chunk, waited, rounds, out, generated,
                   sig, trace>>

\* entry = generate_entry(templates, prefix=args.prefix)
Generate ==
    /\ pc = "generate"
    /\ \E i \in 1..Len(templates) :
          IF FormatRaises(templates[i])
          THEN /\ pc' = "except"
               /\ UNCHANGED <<entry, generated>>
          ELSE /\ entry' = generate_entry(templates[i], args.prefix,
                                          Timestamp(cycle))
               /\ generated' = Append(generated, entry')
               /\ pc' = "append"
    /\ UNCHANGED <<status, args, env, totals, handler, stop_signal_received, templates,
                   exists, created, file, index, history, remote, cycle, delay,
                   committed, slept, chunk, waited, rounds, out, sig, trace>>

\* append_entry(target_file, entry)
AppendEntry ==
    /\ pc = "append"
    /\ file' = append_entry(file, entry)
    /\ trace' = [trace EXCEPT !.appends = @ + 1]
    /\ totals' = [totals EXCEPT !.appends = @ + 1]
    /\ pc' = "add"
    /\ UNCHANGED <<status, args, env, handler, stop_signal_received, templates,
                   exists, created, index, history, remote, cycle, delay, entry,
                   committed, slept, chunk, waited, rounds, out, generated, sig>>

\* git_stage_and_commit, first command: git add -- <file>
GitAdd ==
    /\ pc = "add"
    /\ \E rc \in Outcomes :
          /\ index' = IF rc = "ok" THEN file ELSE index
          /\ pc' = CASE rc = "ok" -> "commit"
                     [] rc = "fail" -> "report"
                     [] rc = "oserror" -> "except"
          /\ committed' = FALSE
          /\ trace' = [trace EXCEPT !.adds = @ + 1,
                                    !.commit = IF rc = "fail" THEN "failed" ELSE @]
    /\ UNCHANGED <<status, args, env, totals, handler, stop_signal_received, templates,
                   exists, created, file, history, remote, cycle, delay, entry,
                   slept, chunk, waited, rounds, out, generated, sig>>

\* Mutant: the commit adds only the cycle's entry to the last committed tree.
NewCommit_EntryOnly == [tree |-> HeadTree \o entry, message |-> Timestamp(cycle)]

\* The commit a successful git commit adds to the history.
NewCommit == [tree |-> index, message |-> Timestamp(cycle)]

\* git_stage_and_commit, second command: git commit -m <message>
GitCommit ==
    /\ pc = "commit"
    /\ \E rc \in CommitOutcomes(index) :
          /\ history' = IF rc = "ok" THEN Append(history, NewCommit) ELSE history
          /\ committed' = (rc = "ok")
          /\ pc' = IF rc = "oserror" THEN "except" ELSE "report"
          /\ trace' = [trace EXCEPT
                          !.commits = @ + 1,
                          !.stopAtCommit = stop_signal_received,
                          !.commit = CASE rc = "ok" -> "ok"
                                       [] rc = "fail" -> "failed"
                                       [] rc = "oserror" -> "raised"]
          /\ totals' = [totals EXCEPT
                           !.commits = @ + 1,
                           !.commitsOk = IF rc = "ok" THEN @ + 1 ELSE @]
    /\ UNCHANGED <<status, args, env, handler, stop_signal_received, templates,
                   exists, created, file, index, remote, cycle, delay, entry,
                   slept, chunk, waited, rounds, out, generated, sig>>

\* Mutant: a commit that failed is tried again.
AfterReport_RetryCommit ==
    IF committed THEN (IF args.push # "" THEN "push" ELSE "wait") ELSE "commit"

\* Mutant: the push is not guarded by committed.
AfterReport_PushAlways == IF args.push # "" THEN "push" ELSE "wait"

\* Where the cycle goes once the commit is reported (lines 181-194).
AfterReport == IF committed /\ args.push # "" THEN "push" ELSE "wait"

\* The line that reports the commit: the first carries [now], the second
\* is a bare sentence.
ReportLine == IF committed THEN Line("stdout", "Committed", TRUE)
                           ELSE Line("stdout", "No commit created", FALSE)

\* if committed: print Committed ... else: print No commit created
Report ==
    /\ pc = "report"
    /\ out' = Append(out, ReportLine)
    /\ trace' = [trace EXCEPT !.printed = Append(@, ReportLine)]
    /\ pc' = AfterReport
    /\ slept' = 0
    /\ UNCHANGED <<status, args, env, totals, handler, stop_signal_received, templates,
                   exists, created, file, index, history, remote, cycle, delay,
                   entry, committed, chunk, waited, rounds, generated, sig>>

\* Mutant: git_push lets the RuntimeError of a failed push through.
AfterPush_Raise(rc) == IF rc = "ok" THEN "wait" ELSE "except"

\* Where the cycle goes after git_push returned or raised.
AfterPush(rc) == IF rc = "oserror" THEN "except" ELSE "wait"

\* What is printed about the push: a line with the same [now] for a push
\* that returned, nothing here when subprocess.run raised.
PushLines(rc) ==
    CASE rc = "ok" -> <<Line("stdout", "Pushed to remote.", TRUE)>>
      [] rc = "fail" -> <<Line("stdout", "Push failed", TRUE)>>
      [] rc = "oserror" -> <<>>

\* pushed = git_push(repo), and the line that reports it
Push ==
    /\ pc = "push"
    /\ \E rc \in Outcomes :
          /\ remote' = IF rc = "ok" THEN Len(history) ELSE remote
          /\ out' = out \o PushLines(rc)
          /\ pc' = AfterPush(rc)
          /\ trace' = [trace EXCEPT
                          !.pushes = @ + 1,
                          !.push = CASE rc = "ok" -> "ok"
                                     [] rc = "fail" -> "failed"
                                     [] rc = "oserror" -> "raised",
                          !.printed = @ \o PushLines(rc)]
          /\ totals' = [totals EXCEPT !.pushes = @ + 1]
    /\ slept' = 0
    /\ UNCHANGED <<status, args, env, handler, stop_signal_received, templates,
                   exists, created, file, index, history, cycle, delay, entry,
                   committed, chunk, waited, rounds, generated, sig>>

\* Mutant: the wait loop does not test the flag.
WaitCondition_NoStop == slept < delay

\* while slept < delay and not stop_signal_received:
WaitCondition == slept < delay /\ ~stop_signal_received

WaitCheck ==
    /\ pc = "wait"
    /\ IF WaitCondition
       THEN /\ chunk' = NextChunk(delay, slept)
            /\ pc' = "sleep"
       ELSE /\ chunk' = chunk
            /\ pc' = "loop"
    /\ UNCHANGED <<status, args, env, totals, handler, stop_signal_received, templates,
                   exists, created, file, index, history, remote, cycle, delay,
                   entry, committed, slept, waited, rounds, out, generated, sig,
                   trace>>

\* time.sleep(min(1.0, delay - slept)) returns; slept += 1.0
SleepReturn ==
    /\ pc = "sleep"
    /\ waited' = waited + chunk
    /\ slept' = slept + SleepChunk * TicksPerSecond
    /\ pc' = "wait"
    /\ UNCHANGED <<status, args, env, totals, handler, stop_signal_received, templates,
                   exists, created, file, index, history, remote, cycle, delay,
                   entry, committed, chunk, rounds, out, generated, sig, trace>>

\* Mutant: the exception leaves the loop.
AfterException_Break == "exit"

\* Where an exception raised inside the try block takes the main thread.
AfterException == "backoff"

\* The line of the except clause: the exception's text on the error stream.
ErrorLine == Line("stderr", "Error in loop", FALSE)

\* except Exception as e: print(f"Error in loop: {e}", file=sys.stderr)
Except ==
    /\ pc = "except"
    /\ out' = Append(out, ErrorLine)
    /\ rounds' = 0
    /\ pc' = AfterException
    /\ trace' = [trace EXCEPT !.raised = TRUE,
                              !.printed = Append(@, ErrorLine)]
    /\ UNCHANGED <<status, args, env, totals, handler, stop_signal_received, templates,
                   exists, created, file, index, history, remote, cycle, delay,
                   entry, committed, slept, chunk, waited, generated, sig>>

\* Mutant: the backoff does not look at the flag.
BackoffCondition_NoStop == rounds < BackoffRounds

\* for _ in range(5): if stop_signal_received: break
BackoffCondition == rounds < BackoffRounds /\ ~stop_signal_received

BackoffCheck ==
    /\ pc = "backoff"
    /\ pc' = IF BackoffCondition THEN "backoff_sleep" ELSE "loop"
    /\ UNCHANGED <<status, args, env, totals, handler, stop_signal_received, templates,
                   exists, created, file, index, history, remote, cycle, delay,
                   entry, committed, slept, chunk, waited, rounds, out,
                   generated, sig, trace>>

\* time.sleep(1) returns
BackoffWake ==
    /\ pc = "backoff_sleep"
    /\ rounds' = rounds + 1
    /\ trace' = [trace EXCEPT !.backoff = @ + BackoffSleep * TicksPerSecond]
    /\ pc' = "backoff"
    /\ UNCHANGED <<status, args, env, totals, handler, stop_signal_received, templates,
                   exists, created, file, index, history, remote, cycle, delay,
                   entry, committed, slept, chunk, waited, out, generated, sig>>

\* print("Exited cleanly."); main() returns
Exit ==
    /\ pc = "exit"
    /\ Die("exit0", <<Line("stdout", "Exited cleanly.", FALSE)>>)
    /\ UNCHANGED <<env, Frame>>

----------------------------------------------------------------------------
(* SIGINT *)

\* Mutant: the handler raises, which aborts the work of the cycle.
HandlerResume_Abort(at) == IF at \in WorkPcs THEN "except" ELSE at

\* What _handle_sigint does to the main thread's position.
HandlerResume(at) == at

\* _handle_sigint: sets the flag and prints; the interrupted call resumes.
Sigint ==
    /\ handler
    /\ pc # "done"
    /\ sig.count < MaxSigints
    /\ stop_signal_received' = TRUE
    /\ out' = Append(out, Line("stdout", "Stopping", FALSE))
    /\ pc' = HandlerResume(pc)
    /\ sig' = IF sig.count = 0
              THEN [count |-> 1, cycle |-> cycle, pc |-> pc, waited |-> waited]
              ELSE [sig EXCEPT !.count = @ + 1]
    /\ UNCHANGED <<status, args, env, totals, handler, templates, exists, created, file,
                   index, history, remote, cycle, delay, entry, committed,
                   slept, chunk, waited, rounds, generated, trace>>

\* SIGINT before the handler is installed: KeyboardInterrupt ends the process.
SigintDefault ==
    /\ ~handler
    /\ pc # "done"
    /\ Die("killed", <<Line("stderr", "KeyboardInterrupt", FALSE)>>)
    /\ UNCHANGED <<env, Frame>>

----------------------------------------------------------------------------

MainStep ==
    \/ ParseArgs \/ Validate \/ LoadTemplates \/ EnsureFile \/ Branch
    \/ Inform \/ Register
    \/ LoopCheck \/ ComputeDelay \/ Generate \/ AppendEntry \/ GitAdd
    \/ GitCommit \/ Report \/ Push \/ WaitCheck \/ SleepReturn
    \/ Except \/ BackoffCheck \/ BackoffWake \/ Exit

Next == MainStep \/ Sigint \/ SigintDefault

Spec == Init /\ [][Next]_vars

\* The runs with a zero interval (with and without --randomize) and with the
\* interval MaxInterval, in which the interpreter keeps running the main
\* thread: every command and every sleep returns.
FairCommandLines == {c \in CommandLines : c.interval \in {0, MaxInterval}}

FairInit == Init /\ args \in FairCommandLines

FairSpec == FairInit /\ [][Next]_vars /\ WF_vars(MainStep)

\* The delay computation alone, at the start of the first cycle, for every
\* positive base interval up to MaxBase.
DelayArgs ==
    {[DefaultArgs EXCEPT !.interval = b, !.randomize = r] :
        b \in 1..MaxBase, r \in BOOLEAN}

DelayInit ==
    /\ pc = "delay"
    /\ status = "running"
    /\ args \in DelayArgs
    /\ env = [NoEnv EXCEPT !.repo = "tree"]
    /\ totals = NoTotals
    /\ handler = TRUE
    /\ stop_signal_received = FALSE
    /\ templates = DEFAULT_TEMPLATES
    /\ exists = TRUE
    /\ created = TRUE
    /\ file = Header
    /\ index = <<>>
    /\ history = <<>>
    /\ remote = 0
    /\ cycle = 1
    /\ delay = 0
    /\ entry = <<>>
    /\ committed = FALSE
    /\ slept = 0
    /\ chunk = 0
    /\ waited = 0
    /\ rounds = 0
    /\ out = <<Line("stdout", "Repository", FALSE),
               Line("stdout", "Target file", FALSE),
               Line("stdout", "Interval", FALSE),
               Line("stdout", "Press Ctrl+C to stop.", FALSE)>>
    /\ generated = <<>>
    /\ sig = NoSig
    /\ trace = NoTrace

DelaySpec == DelayInit /\ [][ComputeDelay]_vars

----------------------------------------------------------------------------
(* Vocabulary of the properties *)

IsPrefix(s, t) == Len(s) <= Len(t) /\ SubSeq(t, 1, Len(s)) = s

RECURSIVE Flat(_)
Flat(ss) == IF ss = <<>> THEN <<>> ELSE Head(ss) \o Flat(Tail(ss))

Front(s) == SubSeq(s, 1, Len(s) - 1)

Printed(text) == \E i \in 1..Len(out) : out[i].text = text

NewLines(s) == Cardinality({i \in 1..Len(s) : s[i] = NL})

----------------------------------------------------------------------------
(* C1: once the loop is entered it is left only with the stop flag set; the
   process ends in any other way only before the loop, during startup. *)
C1_LoopLeavesOnlyOnStop ==
    /\ pc = "exit" => stop_signal_received
    /\ status = "exit0" => stop_signal_received
    /\ (pc = "done") = (status # "running")
    /\ status \in {"exit1", "exit2", "killed"} => ~handler /\ cycle = 0

\* Two cycles failed (one raised, one did not commit) and the loop still
\* ran until the stop flag ended it.
C1_Witness ==
    /\ status = "exit0"
    /\ cycle = 2
    /\ Printed("Error in loop")
    /\ Printed("No commit created")

(* C2: in a cycle whose commit step yields committed = false no push is
   attempted, nothing is raised, and the cycle goes on to its wait step. *)
C2_NoPushWithoutCommit ==
    trace.commit = "failed" =>
        /\ ~committed
        /\ trace.pushes = 0
        /\ pc \in {"report"} \cup AfterWorkPcs

\* The commit command failed and the cycle is sleeping in its wait.
C2_Witness ==
    /\ trace.commit = "failed"
    /\ trace.commits = 1
    /\ args.push # ""
    /\ pc = "sleep"

(* C3: when a push fails after a successful commit the commit stays in the
   history, which is never shortened or rewritten, and the cycle is in or
   past its wait step with nothing raised. *)
C3_PushFailureKeepsCommit ==
    /\ [](trace.push = "failed" =>
            /\ trace.commit = "ok"
            /\ history # <<>>
            /\ history[Len(history)] = [tree |-> file, message |-> Timestamp(cycle)]
            /\ pc \in AfterWorkPcs)
    /\ [][IsPrefix(history, history')]_vars

\* A later cycle committed after the push of the first cycle failed.
C3_Witness ==
    /\ cycle = 2
    /\ Len(history) = 2
    /\ remote = 0
    /\ Printed("Push failed")
    /\ trace.commit = "ok"
    /\ trace.push = "none"

(* C4: a target file the program created holds the header followed by the
   generated entries in the order of their cycles, one line each, whatever
   the commits and pushes did; the content is only ever extended. *)
C4_HeaderThenEntriesInOrder ==
    /\ [](created =>
            /\ file = Header \o Flat(IF pc = "append" THEN Front(generated)
                                                       ELSE generated)
            /\ \A i \in 1..Len(generated) :
                  NewLines(generated[i]) = 1 /\ EndsWithNL(generated[i]))
    /\ [][IsPrefix(file, file')]_vars

\* Two entries are in the file and neither was committed.
C4_Witness ==
    /\ created
    /\ Len(generated) = 2
    /\ generated[1] # generated[2]
    /\ file = Header \o generated[1] \o generated[2]
    /\ history = <<>>

(* C5: after a stop signal that arrives in the wait phase only the sleep
   chunk in progress (at most one second) completes; no further chunk is
   slept and no further cycle starts. *)
C5_StopEndsWaitWithinOneChunk ==
    sig.pc \in WaitPcs =>
        /\ cycle = sig.cycle
        /\ pc \in AfterWorkPcs
        /\ waited - sig.waited <= SleepChunk * TicksPerSecond
        /\ sig.pc = "wait" => waited = sig.waited /\ pc # "sleep"
        /\ pc = "sleep" => waited = sig.waited

\* The process ended after a signal during a sleep with more than one
\* chunk of the delay left unslept.
C5_Witness ==
    /\ status = "exit0"
    /\ sig.pc = "sleep"
    /\ waited = sig.waited + SleepChunk * TicksPerSecond
    /\ delay - waited >= 2 * SleepChunk * TicksPerSecond

(* C6: under FairSpec, once the stop flag is set the process prints the
   clean-exit line and returns with exit status 0. *)
C6_StopLeadsToCleanExit ==
    stop_signal_received ~>
        /\ pc = "done"
        /\ status = "exit0"
        /\ out[Len(out)] = Line("stdout", "Exited cleanly.", FALSE)

\* The process exited cleanly after a signal that arrived during the backoff.
C6_Witness ==
    /\ status = "exit0"
    /\ sig.pc = "backoff_sleep"
    /\ out[Len(out)].text = "Exited cleanly."

(* C7 as stated: no commit is attempted once the stop flag is set. *)
C7_NoCommitAfterStop == ~(trace.commits > 0 /\ trace.stopAtCommit)

(* C7 as amended: a commit attempted with the stop flag set belongs to the
   cycle that was in its work phase when the signal arrived, and is that
   cycle's only commit attempt; no cycle starts once the flag is set; the
   history is never shortened. *)
C7_CommitAfterStopOnlyInFlight ==
    /\ [](trace.commits > 0 /\ trace.stopAtCommit =>
            /\ sig.cycle = cycle
            /\ sig.pc \in {"delay", "generate", "append", "add", "commit"}
            /\ trace.commits = 1)
    /\ [][stop_signal_received => cycle' = cycle]_vars
    /\ [][IsPrefix(history, history')]_vars

\* The second cycle committed after the signal, the first before it, and
\* both commits are in the history when the process has exited.
C7_Witness ==
    /\ status = "exit0"
    /\ trace.stopAtCommit
    /\ trace.commit = "ok"
    /\ Len(history) = 2
    /\ sig.cycle = 2

\* What a cycle that raised nothing has done when its work phase is over.
WorkDone ==
    /\ trace.appends = 1
    /\ trace.adds = 1
    /\ trace.commit \in {"ok", "failed"}
    /\ trace.commit = "ok" => trace.commits = 1
    /\ trace.commit = "ok" /\ args.push # "" => trace.push \in {"ok", "failed"}
    /\ out[Len(out)].text \in
          {"Committed", "No commit created", "Pushed to remote.", "Push failed",
           "Stopping", "Exited cleanly."}

(* C8: the handler changes nothing but the flag (and prints): the main
   thread stays where it was, so a cycle interrupted in its work phase does
   all of its work; and once the flag is set no cycle starts. *)
C8_HandlerOnlySetsFlag ==
    /\ [][stop_signal_received' /\ ~stop_signal_received =>
            /\ pc' = pc
            /\ UNCHANGED <<status, args, env, totals, templates, exists, created, file,
                           index, history, remote, cycle, delay, entry,
                           committed, slept, chunk, waited, rounds, generated,
                           trace>>]_vars
    /\ [][stop_signal_received => cycle' = cycle]_vars
    /\ [](sig.pc \in WorkPcs /\ ~trace.raised /\ pc \in AfterWorkPcs =>
            cycle = sig.cycle /\ WorkDone)

\* A signal arrived between generate and append; the cycle still appended,
\* committed and pushed, and then the process exited.
C8_Witness ==
    /\ status = "exit0"
    /\ sig.pc = "append"
    /\ trace.commit = "ok"
    /\ trace.push = "ok"
    /\ cycle = 1

\* delay, in ticks, against the bounds lo and hi given in hundredths of a
\* second per tick-second.
DelayWithin(lo, hi) ==
    100 * delay >= lo * TicksPerSecond /\ 100 * delay <= hi * TicksPerSecond

(* C9 as stated: with jitter and b > 0 the delay is in [max(10, 0.8b), 1.2b]. *)
C9_DelayInStatedRange ==
    pc = "generate" /\ args.randomize /\ args.interval > 0 =>
        DelayWithin(Max(100 * MinDelay, (100 - JitterPercent) * args.interval),
                    (100 + JitterPercent) * args.interval)

(* C9 as amended: with jitter and b > 0 the delay is in
   [max(10, 0.8b), max(10, 1.2b)]. *)
C9_DelayInClampedRange ==
    pc = "generate" /\ args.randomize /\ args.interval > 0 =>
        DelayWithin(Max(100 * MinDelay, (100 - JitterPercent) * args.interval),
                    Max(100 * MinDelay, (100 + JitterPercent) * args.interval))

\* A base interval whose whole jitter range is above the floor, with the
\* delay at the lower end 0.8b of the range.
C9_Witness ==
    /\ pc = "generate"
    /\ args.randomize
    /\ (100 - JitterPercent) * args.interval > 100 * MinDelay
    /\ 100 * delay = (100 - JitterPercent) * args.interval * TicksPerSecond

(* C10 as stated: the loop never runs with a base interval <= 0. *)
C10_LoopIntervalPositive == pc \in LoopPcs => args.interval > 0


----------------------------------------------------------------------------
\* The outcome of the cycle is known: its work is over and every line the
\* cycle prints about it has been printed.
CycleReported == cycle > 0 /\ pc \in WaitPcs \cup {"backoff", "backoff_sleep", "loop"}

(* C11 as stated: every cycle outcome (committed, no commit, committed and
   pushed, committed and push failed, cycle error) produces exactly one
   printed line for that cycle, and that line carries a timestamp. *)
C11_OneStampedLinePerCycle ==
    CycleReported =>
        /\ Len(trace.printed) = 1
        /\ trace.printed[1].stamped


(* C12 as stated: with the default configuration a push is attempted after
   every successful commit; when the operator selects no-push (the option
   --no-push) the command line is accepted, the loop runs, and no push is
   attempted in any cycle. *)
C12_PushOptionGovernsPush ==
    /\ ~args.unrecognized /\ args.push = "True" /\ pc \in WaitPcs
          /\ trace.commit = "ok" => trace.pushes = 1
    /\ args.unrecognized => status # "exit2" /\ totals.pushes = 0


(* C13 as stated: when the configured templates file is unreadable or has no
   non-blank line, startup prints a warning and goes on with the built-in
   pool; the pool the loop uses is never empty. *)
C13_TemplateFallbackWarns ==
    /\ env.templates \in {"unreadable", "blank"} =>
          /\ Printed("Warning")
          /\ templates = DEFAULT_TEMPLATES
    /\ pc \in LoopPcs => templates # <<>>


\* The repository path is not a working tree (or git cannot tell).
NotWorkTree == env.repo \in RepoKinds \ {"tree"}

\* A branch is configured, git checkout failed and git checkout -b failed.
BranchUnavailable ==
    args.branch /\ env.switch = "fail" /\ env.create \in {"fail", "oserror"}

(* C14: if the repository path is not a working tree, or a branch is
   configured and both the switch and the create-and-switch fail, the process
   has exited with a non-zero status before the loop: the handler was never
   installed, no cycle ran, no entry was generated or appended, and no git
   add, commit or push was attempted. *)
C14_StartupFailureIsFatal ==
    NotWorkTree \/ BranchUnavailable =>
        /\ pc = "done"
        /\ status = "exit1"
        /\ out # <<>> /\ out[Len(out)].stream = "stderr"
        /\ ~handler
        /\ cycle = 0
        /\ generated = <<>>
        /\ totals = NoTotals
        /\ trace = NoTrace
        /\ history = <<>> /\ remote = 0
        /\ file \in {<<>>, Header} \cup OldFiles
        /\ index \in {<<>>} \cup OldFiles

\* The checkout and the checkout -b both failed: the process is dead with the
\* header file it had just created, and nothing else done.
C14_Witness ==
    /\ BranchUnavailable
    /\ env.repo = "tree"
    /\ status = "exit1"
    /\ created /\ file = Header


----------------------------------------------------------------------------
(* generate_entry and append_entry on their own: the generation and the
   append of the first cycle, for a pool of one template drawn from every
   string of at most MaxTemplateLen tokens, with and without a prefix. *)

MaxTemplateLen == 3

\* What a template can be made of: text, the two spellings of the timestamp
\* field, and a newline character.
TemplateTokens == {"X", "{ts}", "{timestamp}", NL}

AnyTemplates == UNION {[1..n -> TemplateTokens] : n \in 0..MaxTemplateLen}

EntryInit ==
    /\ pc = "generate"
    /\ status = "running"
    /\ args \in {[DefaultArgs EXCEPT !.prefix = p] : p \in Prefixes}
    /\ env = [NoEnv EXCEPT !.repo = "tree"]
    /\ totals = NoTotals
    /\ handler = TRUE
    /\ stop_signal_received = FALSE
    /\ templates \in {<<t>> : t \in AnyTemplates}
    /\ exists = TRUE
    /\ created = TRUE
    /\ file = Header
    /\ index = <<>>
    /\ history = <<>>
    /\ remote = 0
    /\ cycle = 1
    /\ delay = EffectiveDelay(args.interval, FALSE, 0)
    /\ entry = <<>>
    /\ committed = FALSE
    /\ slept = 0
    /\ chunk = 0
    /\ waited = 0
    /\ rounds = 0
    /\ out = <<Line("stdout", "Repository", FALSE),
               Line("stdout", "Target file", FALSE),
               Line("stdout", "Interval", FALSE),
               Line("stdout", "Press Ctrl+C to stop.", FALSE)>>
    /\ generated = <<>>
    /\ sig = NoSig
    /\ trace = NoTrace

EntrySpec == EntryInit /\ [][Generate \/ AppendEntry]_vars

\* The string ends with a newline character and has none right before it.
EndsWithOneNL(s) == EndsWithNL(s) /\ ~EndsWithNL(Front(s))

(* C15 as stated: for every template and every prefix, generate_entry returns
   a string that ends with exactly one newline character, also when the
   template itself ends with one or more newline characters. *)
C15_EntryEndsWithOneNewline ==
    pc \in {"append", "add"} => EndsWithOneNL(entry)


(* C16: after an exception in a cycle the backoff makes at most BackoffRounds
   waits of BackoffSleep seconds each; a wait is started only with the stop
   flag found unset, and with the flag set the backoff ends at its next test;
   from the loop test that follows, the next cycle starts at the delay
   computation when the flag is unset, and the loop is left, with no further
   cycle, when it is set. *)
C16_BackoffBoundedAndInterruptible ==
    /\ [](pc \in {"backoff", "backoff_sleep"} =>
            /\ trace.raised
            /\ rounds <= BackoffRounds
            /\ pc = "backoff_sleep" => rounds < BackoffRounds
            /\ trace.backoff = rounds * BackoffSleep * TicksPerSecond)
    /\ [][/\ pc = "backoff" /\ pc' = "backoff_sleep" =>
                ~stop_signal_received
          /\ pc = "backoff" /\ stop_signal_received /\ pc' # pc =>
                pc' = "loop" /\ rounds' = rounds
          /\ pc = "backoff" /\ pc' = "loop" =>
                stop_signal_received \/ rounds = BackoffRounds
          /\ pc = "loop" /\ trace.raised /\ pc' # pc =>
                IF stop_signal_received
                THEN pc' = "exit" /\ cycle' = cycle
                ELSE pc' = "delay" /\ cycle' = cycle + 1
         ]_vars

\* A backoff that the stop flag ended after some, not all, of its waits.
C16_Witness ==
    /\ pc = "loop"
    /\ trace.raised
    /\ stop_signal_received
    /\ rounds \in 1..(BackoffRounds - 1)
    /\ trace.backoff = rounds * BackoffSleep * TicksPerSecond


\* A cycle without jitter and with a positive base interval.
PlainCycle == cycle > 0 /\ ~args.randomize /\ args.interval > 0

(* C17: in a cycle with jitter disabled and base interval b > 0, the delay
   computed before the work is b exactly and is the one the wait uses; every
   sleep of the wait is at most one second long and is started only with the
   stop flag found unset; and when the cycle ends with no exception and no
   stop signal, the wait has slept b seconds in all. *)
C17_PlainDelayIsSleptExactly ==
    /\ [](PlainCycle /\ pc \in (WorkPcs \ {"delay"}) \cup WaitPcs =>
             delay = args.interval * TicksPerSecond)
    /\ [](PlainCycle /\ pc = "sleep" =>
             /\ chunk \in 1..(SleepChunk * TicksPerSecond)
             /\ waited + chunk <= delay)
    /\ [](PlainCycle /\ pc = "loop" /\ ~trace.raised /\ ~stop_signal_received =>
             waited = args.interval * TicksPerSecond)
    /\ [][/\ pc = "wait" /\ pc' = "sleep" => ~stop_signal_received
          /\ pc \in (WorkPcs \ {"delay"}) \cup WaitPcs => delay' = delay
         ]_vars

\* A cycle with the long interval slept it whole, in one-second chunks.
C17_Witness ==
    /\ PlainCycle
    /\ args.interval = LongInterval
    /\ pc = "loop"
    /\ ~trace.raised /\ ~stop_signal_received
    /\ trace.appends = 1
    /\ waited = LongInterval * TicksPerSecond


\* How often a token occurs in a template.
Occurrences(templ, tok) == Cardinality({i \in 1..Len(templ) : templ[i] = tok})

\* Every template of the pool has at most one field named by `field` and no
\* field named by `other`.
PoolWithField(field, other) ==
    \A i \in 1..Len(templates) :
        /\ Occurrences(templates[i], field) <= 1
        /\ Occurrences(templates[i], other) = 0

\* The entry a template has to give in this cycle when `field` is the
\* placeholder: the lead, the template with the clock reading in the place of
\* the placeholder, one newline.
ExpectedEntry(templ, field) ==
    (IF args.prefix # <<>> THEN args.prefix ELSE <<"-">>) \o <<SP>>
    \o [i \in 1..Len(templ) |->
           IF templ[i] = field THEN Timestamp(cycle) ELSE templ[i]]
    \o <<NL>>

\* generate_entry raised: the except clause is reached with nothing appended
\* and no command run.
GenerationFailed == pc = "except" /\ trace.appends = 0 /\ trace.adds = 0

\* The cycle generates the entry of one of the pool's templates, with the
\* placeholder replaced, and appends it as exactly one line.
GeneratesAndAppends(field) ==
    /\ ~GenerationFailed
    /\ pc \in {"append", "add"} =>
          /\ \E i \in 1..Len(templates) :
                entry = ExpectedEntry(templates[i], field)
          /\ Occurrences(entry, field) = 0
          /\ generated[Len(generated)] = entry
    /\ pc = "add" =>
          /\ trace.appends = 1
          /\ NewLines(entry) = 1
          /\ Len(file) > Len(entry)
          /\ SubSeq(file, Len(file) - Len(entry) + 1, Len(file)) = entry

(* C18 as stated: for a pool whose templates each contain zero or one
   placeholder written {timestamp}, every cycle generates an entry with the
   placeholder replaced by the current timestamp and appends exactly one
   line; generation never fails. *)
C18_TimestampPlaceholderIsReplaced ==
    cycle > 0 /\ PoolWithField("{timestamp}", "{ts}") =>
        GeneratesAndAppends("{timestamp}")

(* C18, amended: the same for a pool whose templates each contain zero or one
   placeholder written {ts} and no field of another name. *)
C18_TsPlaceholderIsReplaced ==
    cycle > 0 /\ PoolWithField("{ts}", "{timestamp}") =>
        GeneratesAndAppends("{ts}")

\* The second cycle appended the entry of a template read from the templates
\* file, with that cycle's clock reading in the placeholder's place.
C18_Witness ==
    /\ args.templates_file
    /\ PoolWithField("{ts}", "{timestamp}")
    /\ cycle = 2
    /\ pc = "add"
    /\ entry = <<"-", SP, "Y", SP, Timestamp(2), NL>>
    /\ trace.appends = 1


(* C19: a cycle makes at most one commit attempt and at most one push
   attempt, and attempts the push only after its own commit succeeded; over
   the whole run, push attempts <= successful commits <= appended entries. *)
C19_AttemptsAreBounded ==
    /\ trace.adds <= 1 /\ trace.commits <= 1 /\ trace.pushes <= 1
    /\ trace.commits <= trace.adds /\ trace.adds <= trace.appends
    /\ trace.pushes = 1 => trace.commits = 1 /\ trace.commit = "ok"
    /\ totals.commits <= cycle /\ totals.pushes <= cycle
    /\ totals.pushes <= totals.commitsOk
    /\ totals.commitsOk <= totals.commits
    /\ totals.commits <= totals.appends
    /\ totals.commitsOk = Len(history)
    /\ totals.appends <= Len(generated)

\* Two entries appended, the first cycle's commit failed, the second cycle
\* committed and attempted its one push.
C19_Witness ==
    /\ cycle = 2
    /\ pc \in WaitPcs
    /\ totals.appends = 2
    /\ totals.commits = 2
    /\ totals.commitsOk = 1
    /\ totals.pushes = 1
    /\ trace.pushes = 1


\* The entries append_entry has written so far, in the order of their cycles.
Appended == IF pc = "append" THEN Front(generated) ELSE generated

\* What the target file held when the loop was entered: the header the
\* program wrote, or the content it found.
StartContents == IF created THEN {Header} ELSE OldFiles

(* C20: the entries appended in cycles whose commit failed stay in the target
   file: the file is always what it held at the start followed by every entry
   appended so far; no commit holds anything the file has not; and right
   after a successful commit the committed content of the target file is the
   whole current file. *)
C20_CommitHoldsWholeFile ==
    cycle > 0 =>
        /\ \E base \in StartContents : file = base \o Flat(Appended)
        /\ \A k \in 1..Len(history) : IsPrefix(history[k].tree, file)
        /\ \A k \in 1..(Len(history) - 1) :
               IsPrefix(history[k].tree, history[k + 1].tree)
        /\ pc = "report" /\ committed =>
               /\ HeadTree = file
               /\ \E base \in StartContents : HeadTree = base \o Flat(generated)

\* The first cycle's commit failed and the second cycle's commit succeeded:
\* the one commit holds the header and both entries.
C20_Witness ==
    /\ created
    /\ cycle = 2
    /\ pc = "report" /\ committed
    /\ Len(history) = 1
    /\ Len(generated) = 2
    /\ HeadTree = Header \o generated[1] \o generated[2]

====
